---- MODULE Spec2Model ----
(***************************************************************************)
(* logline-agent: a file tail (src/src/tail.rs) feeding a bounded queue    *)
(* (src/src/main.rs) that a reconnecting connection (src/src/connection.rs)*)
(* drains, framing every chunk with the Logline protocol                   *)
(* (src/src/protocol.rs).                                                  *)
(*                                                                         *)
(* Two tasks run concurrently: FileTail::watch (producer) and              *)
(* ReconnectingConnection::run (consumer).  The environment appends to and *)
(* truncates the file, and makes the server reachable or not.              *)
(*                                                                         *)
(* Time is counted in ticks of the 100 ms receive timeout of the run loop; *)
(* reconnect delays are counted in seconds (they are only doubled, capped  *)
(* and slept, never compared with tick counts).                            *)
(***************************************************************************)
EXTENDS Integers, Sequences, FiniteSets, TLC

(***************************************************************************)
(* Program constants.                                                      *)
(***************************************************************************)
PROTOCOL_VERSION == 1
InitialReconnectDelay == 1
MaxReconnectDelay == 30

(***************************************************************************)
(* Bounds of the model.  QueueCapacity, BufferSize, ScanWindow and         *)
(* KeepaliveTicks stand for the program's 1000 chunks (main.rs:110),       *)
(* 64 KiB (tail.rs:32), 4096 bytes (tail.rs:93) and 30 s = 300 receive     *)
(* timeouts (connection.rs:193,214), scaled down so that a full queue, a   *)
(* clipped read, a scan window shorter than the file and an idle period    *)
(* longer than the keepalive threshold are all reached.  The others bound  *)
(* the environment and the histories: the file's length, the appends and   *)
(* truncations of a run, the --tail-bytes values tried, the consecutive    *)
(* connect failures followed, the Keepalives recorded per socket, and the  *)
(* length of the files the constructors are tried on (longer than a scan   *)
(* window plus the bytes before it).                                       *)
(***************************************************************************)
QueueCapacity == 2
BufferSize == 2
ScanWindow == 2
KeepaliveTicks == 2
MaxFileLen == 3
MaxFileOps == 1
MaxTailBytes == 3
MaxFailures == 2
MaxBackoffFailures == 7
MaxKeepalives == 1
MaxE2EAppends == 2
MaxScanFileLen == 4

NL == 10
ProjectName == <<112>>
\* main's agent_id, the hexadecimal form of a hash of device id and path
AgentId == <<49, 97>>

VARIABLES
    file,                  \* the monitored file's bytes (environment)
    fileOps,               \* appends and truncations done so far (environment)
    server,                \* "up" | "down" (environment)
    lim,                   \* the bounds of this run, fixed by Init
    offset,                \* FileTail.offset
    tail_pc,               \* where FileTail::watch stands
    data,                  \* the chunk watch holds between read and tx.send
    queue,                 \* mpsc::channel::<Vec<u8>>: chunks in flight
    stream,                \* Connection.stream is Some
    state,                 \* Connection.state
    conn_pc,               \* where ReconnectingConnection::run stands
    reconnect_delay,       \* run's reconnect_delay, seconds
    consecutive_failures,  \* run's consecutive_failures
    idle,                  \* last_activity.elapsed(), ticks
    wire,                  \* frames written to the socket held by stream
    quiet,                 \* history: ticks since the last frame was written
    since_data,            \* history: ticks since the last non-keepalive frame
    start_offset,          \* history: the offset construction chose
    ctor,                  \* history, kept in a run with lim.history: the
                           \* constructor called and the file size it saw
    enq,                   \* history: the chunks enqueued, in order
    sent,                  \* history: the LogData writes attempted, in order
    nfail                  \* history: failed connects since the last success

vars == <<file, fileOps, server, lim, offset, tail_pc, data, queue, stream, state,
          conn_pc, reconnect_delay, consecutive_failures, idle, wire,
          quiet, since_data, start_offset, ctor, enq, sent, nfail>>

tailVars == <<offset, tail_pc, data, start_offset, ctor>>
connVars == <<stream, state, conn_pc, reconnect_delay, consecutive_failures,
              idle, wire, quiet, since_data, sent, nfail>>
envVars == <<file, fileOps, server, lim>>

Min(a, b) == IF a <= b THEN a ELSE b

(***************************************************************************)
(* protocol.rs                                                             *)
(***************************************************************************)
Frame(message_type, payload) == [message_type |-> message_type, payload |-> payload]

\* serde_json::to_vec(&HandshakePayload): {"project_name":"<name>","version":<v>}
HandshakePayload(project_name) ==
    <<123, 34, 112, 114, 111, 106, 101, 99, 116, 95, 110, 97, 109, 101, 34, 58, 34>>
    \o project_name
    \o <<34, 44, 34, 118, 101, 114, 115, 105, 111, 110, 34, 58>>
    \o <<48 + PROTOCOL_VERSION, 125>>

FrameHandshake(project_name) == Frame("Handshake", HandshakePayload(project_name))
FrameLogData(bytes) == Frame("LogData", bytes)
FrameKeepalive == Frame("Keepalive", <<>>)

MessageTypes == {"Handshake", "LogData", "Keepalive"}

\* #[repr(u8)] enum MessageType, and `self.message_type as u8`
MessageTypeByte(message_type) ==
    CASE message_type = "Handshake" -> 1
      [] message_type = "LogData" -> 2
      [] message_type = "Keepalive" -> 255

\* impl TryFrom<u8> for MessageType
MessageTypeTryFrom(value) ==
    IF value = 1 THEN [ok |-> TRUE, message_type |-> "Handshake", unknown |-> 0]
    ELSE IF value = 2 THEN [ok |-> TRUE, message_type |-> "LogData", unknown |-> 0]
    ELSE IF value = 255 THEN [ok |-> TRUE, message_type |-> "Keepalive", unknown |-> 0]
    ELSE [ok |-> FALSE, message_type |-> "UnknownMessageType", unknown |-> value]

\* `as u32` of a usize: the low 32 bits, as the low 24 bits and the 8 bits
\* above them
AsU32(n) == (((n \div (2^24)) % 256) * (2^24)) + (n % (2^24))

\* u32::to_be_bytes
ToBeBytes(n) ==
    <<(n \div (2^24)) % 256, (n \div (2^16)) % 256, (n \div (2^8)) % 256, n % 256>>

\* an encode that writes the length field least significant byte first
Encode_LittleEndian(frame) ==
    LET payload_len == Len(frame.payload) + 1
        be == ToBeBytes(AsU32(payload_len))
    IN  <<be[4], be[3], be[2], be[1]>>
        \o <<MessageTypeByte(frame.message_type)>>
        \o frame.payload

\* an encode whose length field counts the payload only
Encode_LengthOfPayloadOnly(frame) ==
    ToBeBytes(AsU32(Len(frame.payload)))
    \o <<MessageTypeByte(frame.message_type)>>
    \o frame.payload

\* Frame::encode
Encode(frame) ==
    LET payload_len == Len(frame.payload) + 1
    IN  ToBeBytes(AsU32(payload_len))
        \o <<MessageTypeByte(frame.message_type)>>
        \o frame.payload

(***************************************************************************)
(* tail.rs: construction and read_new_content                              *)
(***************************************************************************)
IsContinuation(byte) == byte >= 128 /\ byte <= 191

RECURSIVE FindUtf8Boundary(_, _)
FindUtf8Boundary(buffer, start) ==
    IF start < Len(buffer) /\ IsContinuation(buffer[start + 1])
    THEN FindUtf8Boundary(buffer, start + 1)
    ELSE start

\* position (0-based) of the first newline of buffer, or -1
FirstNewline(buffer) ==
    IF \E i \in 1..Len(buffer) : buffer[i] = NL
    THEN (CHOOSE i \in 1..Len(buffer) :
            buffer[i] = NL /\ \A j \in 1..(i - 1) : buffer[j] # NL) - 1
    ELSE -1

\* a boundary search that stops on the newline instead of after it
FindLineBoundary_OnNewline(f, off) ==
    LET file_size == Len(f)
        search_size == Min(ScanWindow, file_size - off)
        buffer == SubSeq(f, off + 1, off + search_size)
        pos == FirstNewline(buffer)
    IN  IF off = 0 \/ off >= file_size THEN off
        ELSE IF Len(buffer) = 0 THEN off
        ELSE IF pos >= 0 THEN off + pos
        ELSE FindUtf8Boundary(buffer, 0) + off

FindLineBoundary(f, off) ==
    LET file_size == Len(f)
        search_size == Min(ScanWindow, file_size - off)
        buffer == SubSeq(f, off + 1, off + search_size)
        pos == FirstNewline(buffer)
    IN  IF off = 0 \/ off >= file_size THEN off
        ELSE IF Len(buffer) = 0 THEN off
        ELSE IF pos >= 0 THEN off + pos + 1
        ELSE FindUtf8Boundary(buffer, 0) + off

\* a tail-from-end that starts at the beginning of the file
FileTailNew_FromZero(f) == 0

FileTailNew(f) == Len(f)

FileTailFromStart(f) == 0

FileTailWithTailBytes(f, tail_bytes) ==
    LET file_size == Len(f)
        off == IF tail_bytes >= file_size THEN 0 ELSE file_size - tail_bytes
    IN  IF off > 0 THEN FindLineBoundary(f, off) ELSE off

\* the constructor main's if-chain calls
MainPolicy(from_start, tail_bytes) ==
    IF from_start THEN "from_start"
    ELSE IF tail_bytes > 0 THEN "with_tail_bytes"
    ELSE "new"

\* main's choice of the construction policy
MainFileTail(f, from_start, tail_bytes) ==
    IF from_start THEN FileTailFromStart(f)
    ELSE IF tail_bytes > 0 THEN FileTailWithTailBytes(f, tail_bytes)
    ELSE FileTailNew(f)

\* read_new_content without the truncation check
ReadNewContent_NoReset(f, off) ==
    LET current_size == Len(f)
        buffer == SubSeq(f, off + 1, off + Min(current_size - off, BufferSize))
    IN  IF current_size <= off THEN [offset |-> off, chunk |-> <<>>]
        ELSE [offset |-> off + Len(buffer), chunk |-> buffer]

\* read_new_content leaving the offset where it was
ReadNewContent_NoAdvance(f, off) ==
    LET current_size == Len(f)
        off1 == IF current_size < off THEN 0 ELSE off
        buffer == SubSeq(f, off1 + 1, off1 + Min(current_size - off1, BufferSize))
    IN  [offset |-> off1, chunk |-> buffer]

\* read_new_content reading everything that is left, whatever its size
ReadNewContent_WholeRest(f, off) ==
    LET current_size == Len(f)
        off1 == IF current_size < off THEN 0 ELSE off
        buffer == SubSeq(f, off1 + 1, current_size)
    IN  IF current_size = off1 THEN [offset |-> off1, chunk |-> <<>>]
        ELSE [offset |-> off1 + Len(buffer), chunk |-> buffer]

\* read_new_content returning Ok(None) right after resetting the offset
ReadNewContent_ResetOnly(f, off) ==
    LET current_size == Len(f)
        buffer == SubSeq(f, off + 1, off + Min(current_size - off, BufferSize))
    IN  IF current_size < off THEN [offset |-> 0, chunk |-> <<>>]
        ELSE IF current_size = off THEN [offset |-> off, chunk |-> <<>>]
        ELSE [offset |-> off + Len(buffer), chunk |-> buffer]

\* read_new_content on file f with stored offset off: the new offset and the
\* chunk returned (<<>> for Ok(None))
ReadNewContent(f, off) ==
    LET current_size == Len(f)
        off1 == IF current_size < off THEN 0 ELSE off
        bytes_to_read == current_size - off1
        buffer == SubSeq(f, off1 + 1, off1 + Min(bytes_to_read, BufferSize))
        bytes_read == Len(buffer)
    IN  IF current_size = off1 THEN [offset |-> off1, chunk |-> <<>>]
        ELSE IF bytes_read = 0 THEN [offset |-> off1, chunk |-> <<>>]
        ELSE [offset |-> off1 + bytes_read, chunk |-> buffer]

(***************************************************************************)
(* connection.rs: Connection                                               *)
(***************************************************************************)
Disconnected == [tag |-> "Disconnected", attempt |-> 0]
Connecting == [tag |-> "Connecting", attempt |-> 0]
Connected == [tag |-> "Connected", attempt |-> 0]
Reconnecting(n) == [tag |-> "Reconnecting", attempt |-> n]

IsConnected == stream /\ state = Connected

\* connect storing the socket before the handshake write that fails
ConnectionConnect_StoresEarly(srv) ==
    IF srv = "up"
    THEN [ok |-> TRUE, stream |-> TRUE, state |-> Connected,
          wire |-> <<FrameHandshake(ProjectName)>>]
    ELSE [ok |-> FALSE, stream |-> TRUE, state |-> Connecting, wire |-> <<>>]

\* connect storing the socket without having written the handshake
ConnectionConnect_NoHandshake(srv) ==
    IF srv = "up"
    THEN [ok |-> TRUE, stream |-> TRUE, state |-> Connected, wire |-> <<>>]
    ELSE [ok |-> FALSE, stream |-> FALSE, state |-> Connecting, wire |-> <<>>]

\* Connection::connect after self.state = Connecting, against server srv:
\* on "down" resolving, opening the socket or writing the handshake fails
\* (a socket that was opened is dropped with the local writer) and nothing is
\* stored; on "up" the handshake is written and the socket stored.
ConnectionConnect(srv) ==
    IF srv = "up"
    THEN [ok |-> TRUE, stream |-> TRUE, state |-> Connected,
          wire |-> <<FrameHandshake(ProjectName)>>]
    ELSE [ok |-> FALSE, stream |-> FALSE, state |-> Connecting, wire |-> <<>>]

\* frame.write_to(writer): write_all and flush succeed on a reachable server
WriteTo(frame, w, srv) ==
    IF srv = "up" THEN [ok |-> TRUE, wire |-> Append(w, frame)]
    ELSE [ok |-> FALSE, wire |-> w]

ConnectionSendData(strm, w, srv, bytes) ==
    IF ~strm THEN [ok |-> FALSE, wire |-> w]
    ELSE WriteTo(FrameLogData(bytes), w, srv)

ConnectionSendKeepalive(strm, w, srv) ==
    IF ~strm THEN [ok |-> FALSE, wire |-> w]
    ELSE WriteTo(FrameKeepalive, w, srv)

\* the cap applied to the delay before it is doubled
Backoff_CapBeforeDoubling(delay) == Min(delay, MaxReconnectDelay) * 2

\* the doubling without the cap
Backoff_NoCap(delay) == delay * 2

\* the exponential backoff of run
Backoff(delay) == Min(delay * 2, MaxReconnectDelay)

\* consecutive_failures += 1 (in a run with lim.fold, counts above
\* lim.failures are folded onto lim.failures)
CountFailure(n) == IF lim.fold THEN Min(n + 1, lim.failures) ELSE n + 1

\* the comparison written as >=
KeepaliveDue_AtThreshold(elapsed) == elapsed >= KeepaliveTicks

\* last_activity.elapsed() > Duration::from_secs(30)
KeepaliveDue(elapsed) == elapsed > KeepaliveTicks

\* a receive that yields the newest chunk
Dequeue_Newest(q) == [chunk |-> q[Len(q)], rest |-> SubSeq(q, 1, Len(q) - 1)]

\* rx.recv() yields the oldest chunk of the channel
Dequeue(q) == [chunk |-> Head(q), rest |-> Tail(q)]

\* a failed chunk put back at the head of the channel
AfterSendFailure_Requeue(q, chunk) == <<chunk>> \o q

\* the channel after a failed send_data: the chunk is gone with `data`
AfterSendFailure(q, chunk) == q

\* an unbounded channel
CanSend_Always(q) == TRUE

\* tx.send completes only when the channel has room (or no receiver)
CanSend(q) == Len(q) < QueueCapacity

Keepalives(w) == Cardinality({i \in 1..Len(w) : w[i].message_type = "Keepalive"})

(***************************************************************************)
(* The environment: the file's writer and the network.                     *)
(***************************************************************************)
ServerStates == {"up", "down"}

\* the k-th byte the environment appends: a, b, c, ...
AppendedByte(k) == 97 + k

FileAppend ==
    /\ Len(file) < MaxFileLen
    /\ fileOps < lim.fileOps
    /\ file' = Append(file, AppendedByte(fileOps))
    /\ fileOps' = fileOps + 1
    /\ UNCHANGED <<server, lim, queue, enq>>
    /\ UNCHANGED tailVars
    /\ UNCHANGED connVars

\* truncation or rotation: the file shrinks to a proper prefix
FileTruncate ==
    /\ Len(file) > 0
    /\ fileOps < lim.fileOps
    /\ \E k \in 0..(Len(file) - 1) : file' = SubSeq(file, 1, k)
    /\ fileOps' = fileOps + 1
    /\ UNCHANGED <<server, lim, queue, enq>>
    /\ UNCHANGED tailVars
    /\ UNCHANGED connVars

ServerChange ==
    /\ \E s \in ServerStates \ {server} : server' = s
    /\ UNCHANGED <<file, fileOps, lim, queue, enq>>
    /\ UNCHANGED tailVars
    /\ UNCHANGED connVars

(***************************************************************************)
(* main.rs and tail.rs: the tail task                                      *)
(***************************************************************************)
\* main: FileTail is constructed before either task is spawned
TailConstruct ==
    /\ tail_pc = "new"
    /\ \E from_start \in BOOLEAN, tail_bytes \in 0..MaxTailBytes :
          /\ offset' = MainFileTail(file, from_start, tail_bytes)
          /\ ctor' = IF lim.history
                     THEN [policy |-> MainPolicy(from_start, tail_bytes),
                           tail_bytes |-> IF from_start THEN 0 ELSE tail_bytes,
                           file_size |-> Len(file)]
                     ELSE ctor
    /\ start_offset' = offset'
    /\ tail_pc' = "watch"
    /\ UNCHANGED <<data, queue, enq>>
    /\ UNCHANGED envVars
    /\ UNCHANGED connVars

\* watch: the initial read and the read of every interval tick
TailRead ==
    /\ tail_pc \in {"watch", "tick"}
    /\ LET r == ReadNewContent(file, offset)
       IN  /\ offset' = r.offset
           /\ data' = r.chunk
           /\ tail_pc' = IF r.chunk # <<>> THEN "send" ELSE "tick"
    /\ UNCHANGED <<start_offset, ctor, queue, enq>>
    /\ UNCHANGED envVars
    /\ UNCHANGED connVars

\* watch: creating the watcher or read_new_content fails; the ? operator
\* returns the error from watch, which drops tx
TailError ==
    /\ tail_pc \in {"watch", "tick"}
    /\ tail_pc' = "done"
    /\ UNCHANGED <<offset, data, start_offset, ctor, queue, enq>>
    /\ UNCHANGED envVars
    /\ UNCHANGED connVars

\* tx.send(data).await: suspended while the queue is full; an error (the
\* receiver is gone) ends watch
TailSend ==
    /\ tail_pc = "send"
    /\ conn_pc = "done" \/ CanSend(queue)
    /\ IF conn_pc = "done"
       THEN /\ tail_pc' = "done"
            /\ UNCHANGED <<queue, enq>>
       ELSE /\ queue' = Append(queue, [id |-> Len(enq) + 1, bytes |-> data])
            /\ enq' = Append(enq, data)
            /\ tail_pc' = "tick"
    /\ data' = <<>>
    /\ UNCHANGED <<offset, start_offset, ctor>>
    /\ UNCHANGED envVars
    /\ UNCHANGED connVars

(***************************************************************************)
(* connection.rs: ReconnectingConnection::run                              *)
(***************************************************************************)
\* a loop that calls connect() on every iteration
RunLoop_AlwaysConnects ==
    /\ conn_pc = "loop"
    /\ tail_pc # "new"
    /\ conn_pc' = "connect"
    /\ state' = Connecting
    /\ UNCHANGED <<stream, reconnect_delay, consecutive_failures, idle, wire,
                   quiet, since_data, sent, nfail, queue, enq>>
    /\ UNCHANGED envVars
    /\ UNCHANGED tailVars

\* top of the loop: if !connection.is_connected() enter connect(), which
\* first sets the state to Connecting
RunLoop ==
    /\ conn_pc = "loop"
    /\ tail_pc # "new"
    /\ IF IsConnected
       THEN /\ conn_pc' = "recv"
            /\ UNCHANGED state
       ELSE /\ conn_pc' = "connect"
            /\ state' = Connecting
    /\ UNCHANGED <<stream, reconnect_delay, consecutive_failures, idle, wire,
                   quiet, since_data, sent, nfail, queue, enq>>
    /\ UNCHANGED envVars
    /\ UNCHANGED tailVars

\* a successful connect that leaves the failure counter as it is
ConnectOk_KeepsCount ==
    /\ conn_pc = "connect"
    /\ LET c == ConnectionConnect(server)
       IN  /\ c.ok
           /\ stream' = c.stream
           /\ state' = c.state
           /\ wire' = c.wire
    /\ reconnect_delay' = InitialReconnectDelay
    /\ idle' = 0
    /\ quiet' = 0
    /\ since_data' = 0
    /\ nfail' = 0
    /\ conn_pc' = "recv"
    /\ UNCHANGED <<consecutive_failures, sent, queue, enq>>
    /\ UNCHANGED envVars
    /\ UNCHANGED tailVars

\* connect() returned Ok(())
ConnectOk ==
    /\ conn_pc = "connect"
    /\ LET c == ConnectionConnect(server)
       IN  /\ c.ok
           /\ stream' = c.stream
           /\ state' = c.state
           /\ wire' = c.wire
    /\ reconnect_delay' = InitialReconnectDelay
    /\ consecutive_failures' = 0
    /\ idle' = 0
    /\ quiet' = 0
    /\ since_data' = 0
    /\ nfail' = 0
    /\ conn_pc' = "recv"
    /\ UNCHANGED <<sent, queue, enq>>
    /\ UNCHANGED envVars
    /\ UNCHANGED tailVars

\* a run loop that gives up after the second consecutive failure
ConnectErr_GiveUp ==
    /\ conn_pc = "connect"
    /\ ~ConnectionConnect(server).ok
    /\ consecutive_failures' = CountFailure(consecutive_failures)
    /\ state' = Reconnecting(consecutive_failures')
    /\ nfail' = IF lim.fold THEN Min(nfail + 1, lim.failures) ELSE nfail + 1
    /\ conn_pc' = IF consecutive_failures' >= 2 THEN "done" ELSE "sleep"
    /\ UNCHANGED <<stream, wire, reconnect_delay, idle, quiet, since_data, sent,
                   queue, enq>>
    /\ UNCHANGED envVars
    /\ UNCHANGED tailVars

\* connect() returned an error: count it, report Reconnecting, go to sleep
ConnectErr ==
    /\ conn_pc = "connect"
    /\ IF lim.fold THEN TRUE ELSE consecutive_failures < lim.failures
    /\ LET c == ConnectionConnect(server)
       IN  /\ ~c.ok
           /\ stream' = c.stream
           /\ wire' = c.wire
    /\ consecutive_failures' = CountFailure(consecutive_failures)
    /\ state' = Reconnecting(consecutive_failures')
    /\ nfail' = IF lim.fold THEN Min(nfail + 1, lim.failures) ELSE nfail + 1
    /\ conn_pc' = "sleep"
    /\ UNCHANGED <<reconnect_delay, idle, quiet, since_data, sent, queue, enq>>
    /\ UNCHANGED envVars
    /\ UNCHANGED tailVars

\* a backoff without its `continue`: after the sleep the loop goes on to
\* rx.recv()
SleepDone_FallsThrough ==
    /\ conn_pc = "sleep"
    /\ reconnect_delay' = Backoff(reconnect_delay)
    /\ conn_pc' = "recv"
    /\ UNCHANGED <<stream, state, consecutive_failures, idle, wire, quiet,
                   since_data, sent, nfail, queue, enq>>
    /\ UNCHANGED envVars
    /\ UNCHANGED tailVars

\* sleep(reconnect_delay) is over: double the delay, continue
SleepDone ==
    /\ conn_pc = "sleep"
    /\ reconnect_delay' = Backoff(reconnect_delay)
    /\ conn_pc' = "loop"
    /\ UNCHANGED <<stream, state, consecutive_failures, idle, wire, quiet,
                   since_data, sent, nfail, queue, enq>>
    /\ UNCHANGED envVars
    /\ UNCHANGED tailVars

\* rx.recv() returned Some(data): send it; on failure disconnect and continue
RecvData ==
    /\ conn_pc = "recv"
    /\ queue # <<>>
    /\ LET r == Dequeue(queue)
           chunk == r.chunk
           w == ConnectionSendData(stream, wire, server, chunk.bytes)
       IN  /\ sent' = Append(sent, [id |-> chunk.id, bytes |-> chunk.bytes, ok |-> w.ok])
           /\ IF w.ok
              THEN /\ queue' = r.rest
                   /\ wire' = w.wire
                   /\ idle' = 0
                   /\ quiet' = 0
                   /\ since_data' = 0
                   /\ UNCHANGED <<stream, state>>
              ELSE /\ queue' = AfterSendFailure(r.rest, chunk)
                   /\ stream' = FALSE
                   /\ state' = Disconnected
                   /\ wire' = <<>>
                   /\ UNCHANGED <<idle, quiet, since_data>>
    /\ conn_pc' = "loop"
    /\ UNCHANGED <<reconnect_delay, consecutive_failures, nfail, enq>>
    /\ UNCHANGED envVars
    /\ UNCHANGED tailVars

\* a receive that takes an empty queue for a closed one
RecvClosed_OnEmpty ==
    /\ conn_pc = "recv"
    /\ queue = <<>>
    /\ conn_pc' = "done"
    /\ UNCHANGED <<stream, state, reconnect_delay, consecutive_failures, idle,
                   wire, quiet, since_data, sent, nfail, queue, enq>>
    /\ UNCHANGED envVars
    /\ UNCHANGED tailVars

\* a None that does not leave the loop
RecvClosed_Continue ==
    /\ conn_pc = "recv"
    /\ queue = <<>>
    /\ tail_pc = "done"
    /\ conn_pc' = "loop"
    /\ UNCHANGED <<stream, state, reconnect_delay, consecutive_failures, idle,
                   wire, quiet, since_data, sent, nfail, queue, enq>>
    /\ UNCHANGED envVars
    /\ UNCHANGED tailVars

\* rx.recv() returned None: every sender is dropped and the queue is empty
RecvClosed ==
    /\ conn_pc = "recv"
    /\ queue = <<>>
    /\ tail_pc = "done"
    /\ conn_pc' = "done"
    /\ UNCHANGED <<stream, state, reconnect_delay, consecutive_failures, idle,
                   wire, quiet, since_data, sent, nfail, queue, enq>>
    /\ UNCHANGED envVars
    /\ UNCHANGED tailVars

\* the 100 ms timeout elapsed with the queue empty and open
RecvTimeout ==
    /\ conn_pc = "recv"
    /\ queue = <<>>
    /\ tail_pc # "done"
    /\ LET elapsed == idle + 1
           w == ConnectionSendKeepalive(stream, wire, server)
       IN  IF KeepaliveDue(elapsed)
           THEN /\ Keepalives(wire) < lim.keepalives
                /\ IF w.ok
                   THEN /\ wire' = w.wire
                        /\ idle' = 0
                        /\ quiet' = 0
                        /\ UNCHANGED <<stream, state>>
                   ELSE /\ stream' = FALSE
                        /\ state' = Disconnected
                        /\ wire' = <<>>
                        /\ idle' = elapsed
                        /\ quiet' = quiet + 1
           ELSE /\ idle' = elapsed
                /\ quiet' = quiet + 1
                /\ UNCHANGED <<stream, state, wire>>
    /\ since_data' = since_data + 1
    /\ conn_pc' = "loop"
    /\ UNCHANGED <<reconnect_delay, consecutive_failures, sent, nfail, queue, enq>>
    /\ UNCHANGED envVars
    /\ UNCHANGED tailVars

(***************************************************************************)
(* Specifications                                                          *)
(***************************************************************************)
InitFiles == {<<>>, <<120, NL, 121>>, <<NL, 128, 120>>}

\* before main spawns the tasks: Connection::new, the locals of run, an empty
\* channel, no history
InitAgent ==
    /\ offset = 0
    /\ tail_pc = "new"
    /\ data = <<>>
    /\ queue = <<>>
    /\ stream = FALSE
    /\ state = Disconnected
    /\ conn_pc = "loop"
    /\ reconnect_delay = InitialReconnectDelay
    /\ consecutive_failures = 0
    /\ idle = 0
    /\ wire = <<>>
    /\ quiet = 0
    /\ since_data = 0
    /\ start_offset = 0
    /\ ctor = [policy |-> "none", tail_bytes |-> 0, file_size |-> 0]
    /\ enq = <<>>
    /\ sent = <<>>
    /\ nfail = 0

Init ==
    /\ file \in InitFiles
    /\ fileOps = 0
    /\ server \in ServerStates
    /\ lim = [fileOps |-> MaxFileOps, failures |-> MaxFailures,
              keepalives |-> MaxKeepalives, fold |-> FALSE, history |-> FALSE]
    /\ InitAgent

EnvNext == FileAppend \/ FileTruncate \/ ServerChange
TailNext == TailConstruct \/ TailRead \/ TailError \/ TailSend
ConnNext == RunLoop \/ ConnectOk \/ ConnectErr \/ SleepDone \/ RecvData
            \/ RecvClosed \/ RecvTimeout

Next == EnvNext \/ TailNext \/ ConnNext

Spec == Init /\ [][Next]_vars

\* The steps each task takes by itself once it can (tokio schedules every
\* ready task); a read error is the environment's choice, not a step the
\* tail is bound to take.
TailSteps == TailConstruct \/ TailRead \/ TailSend
Fairness == WF_vars(TailSteps) /\ WF_vars(ConnNext)

\* The backoff in isolation: a file nobody writes to, and up to
\* MaxBackoffFailures consecutive failed connects.
InitBackoff ==
    /\ file = <<120, NL, 121>>
    /\ fileOps = 0
    /\ server \in ServerStates
    /\ lim = [fileOps |-> 0, failures |-> MaxBackoffFailures,
              keepalives |-> MaxKeepalives, fold |-> FALSE, history |-> FALSE]
    /\ InitAgent

NextQuietFile == ServerChange \/ TailNext \/ ConnNext

SpecBackoff == InitBackoff /\ [][NextQuietFile]_vars

\* The two tasks under fair scheduling, with a server that comes and goes
\* and a file nobody writes to; consecutive failures beyond lim.failures are
\* folded, so that a server that stays unreachable is a retry cycle of the
\* model.
InitLive ==
    /\ file = <<120, NL, 121>>
    /\ fileOps = 0
    /\ server \in ServerStates
    /\ lim = [fileOps |-> 0, failures |-> MaxFailures,
              keepalives |-> MaxKeepalives, fold |-> TRUE, history |-> FALSE]
    /\ InitAgent

SpecLive == InitLive /\ [][NextQuietFile]_vars /\ Fairness

\* End to end: a server that accepts every connect and every write, a file
\* that is only appended to and always readable, fair scheduling.
InitE2E ==
    /\ file \in InitFiles
    /\ fileOps = 0
    /\ server = "up"
    /\ lim = [fileOps |-> MaxE2EAppends, failures |-> MaxFailures,
              keepalives |-> MaxKeepalives, fold |-> FALSE, history |-> TRUE]
    /\ InitAgent

NextE2E == FileAppend \/ TailConstruct \/ TailRead \/ TailSend
           \/ RunLoop \/ ConnectOk \/ RecvData \/ RecvTimeout

SpecE2E == InitE2E /\ [][NextE2E]_vars /\ Fairness

\* The tail by itself on a file nobody writes to: every constructor on every
\* file of newlines, ASCII bytes and UTF-8 continuation bytes up to
\* MaxScanFileLen bytes, and the reads that follow.
ScanFiles == UNION {[1..n -> {NL, 120, 128}] : n \in 0..MaxScanFileLen}

InitTail ==
    /\ file \in ScanFiles
    /\ fileOps = 0
    /\ server = "up"
    /\ lim = [fileOps |-> 0, failures |-> MaxFailures,
              keepalives |-> MaxKeepalives, fold |-> FALSE, history |-> TRUE]
    /\ InitAgent

NextTail == TailConstruct \/ TailRead \/ TailSend

SpecTail == InitTail /\ [][NextTail]_vars

TypeOK ==
    /\ Len(file) <= MaxFileLen
    /\ offset \in 0..MaxFileLen
    /\ tail_pc \in {"new", "watch", "tick", "send", "done"}
    /\ conn_pc \in {"loop", "connect", "sleep", "recv", "done"}
    /\ stream \in BOOLEAN
    /\ consecutive_failures \in 0..lim.failures
    /\ reconnect_delay \in InitialReconnectDelay..MaxReconnectDelay
    /\ idle \in 0..(KeepaliveTicks + 1)

(***************************************************************************)
(* Properties                                                              *)
(***************************************************************************)
IsHandshake(fr) == fr.message_type = "Handshake"
IsLogData(fr) == fr.message_type = "LogData"
IsKeepalive(fr) == fr.message_type = "Keepalive"

Handshakes(w) == Cardinality({i \in 1..Len(w) : IsHandshake(w[i])})

RECURSIVE TrailingKeepalives(_)
TrailingKeepalives(w) ==
    IF w # <<>> /\ IsKeepalive(w[Len(w)])
    THEN 1 + TrailingKeepalives(SubSeq(w, 1, Len(w) - 1))
    ELSE 0

\* C1: on every socket the agent holds, the first frame written is the
\* Handshake, it is the only Handshake, and LogData and Keepalive frames come
\* only after it; no frame is on a socket that is not stored.
C1_HandshakeFirst ==
    /\ stream => (wire # <<>> /\ Handshakes(wire) = 1)
    /\ wire # <<>> => (stream /\ wire[1] = FrameHandshake(ProjectName))
    /\ \A i \in 2..Len(wire) : IsLogData(wire[i]) \/ IsKeepalive(wire[i])

C1_Witness ==
    /\ Len(wire) >= 3
    /\ IsHandshake(wire[1])
    /\ IsLogData(wire[2])
    /\ IsKeepalive(wire[3])

\* C2: the LogData payloads handed to the socket are, in order, chunks the
\* tail enqueued, each at a later place of the enqueue order than the one
\* before: no reordering, no chunk handed over twice.
C2_OrderPreserved ==
    /\ \A i \in 1..Len(sent) :
          /\ sent[i].id \in 1..Len(enq)
          /\ sent[i].bytes = enq[sent[i].id]
    /\ \A i, j \in 1..Len(sent) : i < j => sent[i].id < sent[j].id

C2_Witness ==
    /\ Len(sent) >= 3
    /\ ~sent[2].ok
    /\ sent[1].ok

\* C4: a failed LogData write leaves the connection Disconnected without a
\* socket and the run loop at its top, from where it enters connect(); the
\* chunk is not in the queue again and no chunk is handed to the socket twice.
C4_FailedChunkDropped ==
    /\ [](\A i, j \in 1..Len(sent) : i # j => sent[i].id # sent[j].id)
    /\ [](\A i \in 1..Len(sent), k \in 1..Len(queue) : queue[k].id # sent[i].id)
    /\ [][(Len(sent') > Len(sent) /\ ~sent'[Len(sent')].ok)
            => (state' = Disconnected /\ ~stream' /\ conn_pc' = "loop")]_vars
    /\ [][(conn_pc = "loop" /\ ~IsConnected /\ conn_pc' # "loop")
            => (conn_pc' = "connect" /\ state' = Connecting)]_vars

C4_Witness ==
    \E i, j \in 1..Len(sent) : i < j /\ ~sent[i].ok /\ sent[j].ok

\* C8: a Keepalive is written only at a receive timeout, while Connected, with
\* more than the keepalive threshold elapsed since the last frame written; and
\* on a held socket the Keepalives written since the last LogData (or the
\* Handshake) number one per full threshold-plus-one-tick of quiet time: none
\* up to the threshold, exactly one from there until twice that time.
C8_Keepalive ==
    /\ [][Keepalives(wire') > Keepalives(wire)
            => (conn_pc = "recv" /\ IsConnected /\ queue = <<>>
                /\ quiet + 1 > KeepaliveTicks)]_vars
    /\ [](stream => TrailingKeepalives(wire) = since_data \div (KeepaliveTicks + 1))

C8_Witness ==
    \E i \in 2..(Len(wire) - 1) :
        /\ IsKeepalive(wire[i])
        /\ IsLogData(wire[i + 1])
        /\ ~IsKeepalive(wire[i - 1])

\* C9: the queue never holds more than its capacity; while it is full the
\* tail stays in tx.send with its chunk and reads nothing; a chunk returned by
\* a read is enqueued before the offset moves again.
C9_Backpressure ==
    /\ [](Len(queue) <= QueueCapacity)
    /\ [][(tail_pc = "send" /\ Len(queue) >= QueueCapacity /\ conn_pc # "done")
            => (offset' = offset /\ data' = data /\ tail_pc' = "send" /\ enq' = enq)]_vars
    /\ [][tail_pc = "send"
            => (/\ offset' = offset
                /\ \/ data' = data /\ enq' = enq /\ tail_pc' = "send"
                   \/ data' = <<>> /\ enq' = Append(enq, data))]_vars
    /\ [](data # <<>> <=> tail_pc = "send")

C9_Witness ==
    /\ tail_pc = "send"
    /\ Len(queue) = QueueCapacity

\* C10: right after construction, under each of the three policies, and right
\* after every read_new_content call, offset <= the file's size.
C10_OffsetWithinFile ==
    [][(TailConstruct \/ TailRead) => offset' <= Len(file')]_vars

C10_Witness ==
    /\ tail_pc = "send"
    /\ offset < start_offset
    /\ offset = Len(file)

RECURSIVE WireBytes(_)
WireBytes(w) ==
    IF w = <<>> THEN <<>>
    ELSE IF IsLogData(Head(w)) THEN Head(w).payload \o WireBytes(Tail(w))
    ELSE WireBytes(Tail(w))

IsPrefix(a, b) == Len(a) <= Len(b) /\ a = SubSeq(b, 1, Len(a))

\* the file's bytes from the offset construction chose
Appended == SubSeq(file, start_offset + 1, Len(file))

\* C3, as stated: the frames are one Handshake followed by LogData frames
\* only, carrying the bytes after the initial offset in order.
C3_OnlyHandshakeThenLogData ==
    (tail_pc # "new" /\ wire # <<>>) =>
        /\ IsHandshake(wire[1])
        /\ \A i \in 2..Len(wire) : IsLogData(wire[i])
        /\ IsPrefix(WireBytes(wire), Appended)

\* C3, amended: the frames are one Handshake followed by LogData frames and,
\* after idle periods, Keepalive frames; the LogData payloads concatenated are
\* always a prefix of the bytes after the initial offset (in order, none
\* twice), and every such byte is eventually among them.
C3_EndToEnd ==
    /\ []((tail_pc # "new" /\ wire # <<>>) =>
            /\ IsHandshake(wire[1])
            /\ Handshakes(wire) = 1
            /\ \A i \in 2..Len(wire) :
                  \/ IsKeepalive(wire[i])
                  \/ IsLogData(wire[i]) /\ wire[i].payload # <<>>
            /\ IsPrefix(WireBytes(wire), Appended))
    /\ \A n \in 1..(MaxFileLen + 1) :
          (tail_pc # "new" /\ Len(Appended) >= n) ~> (Len(WireBytes(wire)) >= n)

C3_Witness ==
    wire = <<FrameHandshake(ProjectName), FrameLogData(<<AppendedByte(0)>>),
             FrameLogData(<<AppendedByte(1)>>)>>

\* C5: the wait slept after the N-th consecutive failed connect is
\* min(initial * 2^(N-1), max); while connected the delay is back at initial,
\* which is what the next failure sleeps.
C5_BackoffSequence ==
    /\ conn_pc = "sleep" =>
          /\ nfail >= 1
          /\ reconnect_delay =
                Min(InitialReconnectDelay * 2^(nfail - 1), MaxReconnectDelay)
    /\ IsConnected => (nfail = 0 /\ reconnect_delay = InitialReconnectDelay)

C5_Witness ==
    /\ conn_pc = "sleep"
    /\ nfail >= 6
    /\ reconnect_delay = MaxReconnectDelay
    /\ sent # <<>>

\* C6: every backoff sleep is followed by another connect attempt, however
\* many attempts have failed, and if the server eventually stays reachable
\* the connection ends up Connected.
C6_RetriesForever ==
    /\ (conn_pc = "sleep") ~> (conn_pc = "connect")
    /\ <>[](server = "up") => <>[]IsConnected

C6_Witness ==
    /\ conn_pc = "connect"
    /\ nfail = lim.failures
    /\ consecutive_failures = lim.failures
    /\ server = "up"

\* C7, as stated: once the producer has ended (the queue is closed), the run
\* loop eventually exits.
C7_ExitsWhenClosed == (tail_pc = "done") ~> (conn_pc = "done")

\* C7, amended: if the server eventually stays reachable, then once the
\* producer has ended the run loop eventually exits.
C7_ExitsWhenClosedAndReachable ==
    <>[](server = "up") => ((tail_pc = "done") ~> (conn_pc = "done"))

C7_Witness ==
    /\ conn_pc = "done"
    /\ tail_pc = "done"
    /\ queue = <<>>
    /\ Len(sent) >= 2
    /\ nfail = 0

\* C11, as stated: a read that finds the file shorter than the stored offset
\* resets the offset to 0 and returns no data; the data comes with the next
\* read.
C11_TruncationReadsNothing ==
    [][(TailRead /\ Len(file) < offset) => (offset' = 0 /\ data' = <<>>)]_vars

\* C11, amended: a read that finds the file shorter than the stored offset
\* resets the offset to 0 and goes on in the same call: it returns the first
\* min(size, buffer_size) bytes of the file and leaves the offset behind
\* them; it returns no data only when the file is empty.
C11_TruncationRestartsInSameCall ==
    [][(TailRead /\ Len(file) < offset) =>
          /\ data' = SubSeq(file, 1, Min(Len(file), BufferSize))
          /\ offset' = Len(data')
          /\ (data' = <<>> <=> file = <<>>)
          /\ tail_pc' = IF file = <<>> THEN "tick" ELSE "send"]_vars

C11_Witness ==
    /\ tail_pc = "send"
    /\ offset < start_offset
    /\ data # <<>>
    /\ data = SubSeq(file, 1, offset)

RECURSIVE Flatten(_)
Flatten(chunks) ==
    IF chunks = <<>> THEN <<>> ELSE Head(chunks) \o Flatten(Tail(chunks))

\* every byte read_new_content has returned so far: the chunks enqueued and
\* the one watch holds
Produced == Flatten(enq) \o data

C13_ReadErrorKeepsWatching ==
    [][TailError => (tail_pc' = "tick" /\ offset' = offset /\ queue' = queue)]_vars

\* the value of a 4-byte big-endian field
FromBeBytes(b) == ((b[1] * 256 + b[2]) * 256 + b[3]) * 256 + b[4]

\* what a reader of the frame format recovers from the bytes of one frame:
\* the length field, the type through MessageType::try_from, and the
\* length - 1 bytes that follow
Decode(bytes) ==
    LET length == FromBeBytes(SubSeq(bytes, 1, 4))
        t == MessageTypeTryFrom(bytes[5])
    IN  [ok |-> t.ok /\ Len(bytes) = 4 + length,
         frame |-> Frame(t.message_type, SubSeq(bytes, 6, 4 + length)),
         unknown |-> t.unknown]

\* a payload of n bytes
TestPayload(n) == [i \in 1..n |-> (7 * i) % 256]

\* the frames the layout is checked on: those on the socket, every message
\* type with every prefix of the file as payload, and payloads long enough
\* for the second byte of the length field
CodecFrames ==
    {wire[i] : i \in 1..Len(wire)}
    \cup {Frame(t, SubSeq(file, 1, k)) : t \in MessageTypes, k \in 0..Len(file)}
    \cup {Frame(t, TestPayload(n)) : t \in MessageTypes, n \in {255, 256, 700}}

\* C14: encode writes the length len(payload)+1 as four big-endian bytes,
\* then the type byte (1, 2, 255), then the payload unchanged, and reading
\* the bytes back gives the frame; every other type byte is refused as
\* UnknownMessageType carrying that byte.
C14_EncodeLayout ==
    /\ \A fr \in CodecFrames :
          LET e == Encode(fr)
          IN  /\ Len(e) = 4 + 1 + Len(fr.payload)
              /\ \A i \in 1..Len(e) : e[i] \in 0..255
              /\ FromBeBytes(SubSeq(e, 1, 4)) = Len(fr.payload) + 1
              /\ e[5] = (CASE fr.message_type = "Handshake" -> 1
                           [] fr.message_type = "LogData" -> 2
                           [] fr.message_type = "Keepalive" -> 255)
              /\ SubSeq(e, 6, Len(e)) = fr.payload
              /\ Decode(e).ok
              /\ Decode(e).frame = fr
    /\ \A b \in (0..255) \ {1, 2, 255} :
          LET t == MessageTypeTryFrom(b)
          IN  ~t.ok /\ t.message_type = "UnknownMessageType" /\ t.unknown = b

C14_Witness ==
    \E i, j \in 2..Len(wire) :
        /\ Encode(wire[1]) = <<0, 0, 0, Len(wire[1].payload) + 1, 1>> \o wire[1].payload
        /\ Len(wire[i].payload) = BufferSize
        /\ Encode(wire[i]) = <<0, 0, 0, BufferSize + 1, 2>> \o wire[i].payload
        /\ Encode(wire[j]) = <<0, 0, 0, 1, 255>>

\* pat occurs in s as a run of consecutive bytes
Occurs(pat, s) ==
    \E k \in 1..(Len(s) - Len(pat) + 1) : SubSeq(s, k, k + Len(pat) - 1) = pat

\* the bytes of "project_name":"<name>", "agent_id":"<id>" and "version":<v>
ProjectNameField(name) ==
    <<34, 112, 114, 111, 106, 101, 99, 116, 95, 110, 97, 109, 101, 34, 58, 34>>
    \o name \o <<34>>
AgentIdField(id) ==
    <<34, 97, 103, 101, 110, 116, 95, 105, 100, 34, 58, 34>> \o id \o <<34>>
VersionField(v) ==
    <<34, 118, 101, 114, 115, 105, 111, 110, 34, 58, 48 + v>>

\* C15: every Handshake frame on a socket carries the configured project
\* name, the agent id and the protocol version in its payload.
C15_HandshakeCarriesAgentId ==
    \A i \in 1..Len(wire) :
        IsHandshake(wire[i]) =>
            /\ Occurs(ProjectNameField(ProjectName), wire[i].payload)
            /\ Occurs(VersionField(PROTOCOL_VERSION), wire[i].payload)
            /\ Occurs(AgentIdField(AgentId), wire[i].payload)

\* a LogData write has just failed
SendFailed == Len(sent') > Len(sent) /\ ~sent'[Len(sent')].ok

\* C16: the state starts as Disconnected and changes only from Disconnected
\* or Reconnecting to Connecting (connect is entered), from Connecting to
\* Connected (connect succeeded) or to Reconnecting (connect failed), and from
\* Connected to Disconnected (a LogData or Keepalive write failed).
C16_StateTable ==
    /\ state = Disconnected
    /\ [][state' # state =>
            \/ /\ state.tag \in {"Disconnected", "Reconnecting"}
               /\ state' = Connecting
               /\ conn_pc = "loop" /\ conn_pc' = "connect"
            \/ /\ state = Connecting
               /\ state' = Connected
               /\ server = "up" /\ stream' /\ wire' = <<FrameHandshake(ProjectName)>>
            \/ /\ state = Connecting
               /\ state'.tag = "Reconnecting"
               /\ server = "down" /\ ~stream'
            \/ /\ state = Connected
               /\ state' = Disconnected
               /\ server = "down" /\ ~stream'
               /\ SendFailed \/ (queue = <<>> /\ KeepaliveDue(idle + 1))]_vars

C16_Witness ==
    /\ state = Reconnecting(2)
    /\ \E i, j \in 1..Len(sent) : i < j /\ sent[i].ok /\ ~sent[j].ok
    /\ conn_pc = "sleep"

\* C17: after a failed connect the state is Reconnecting{attempt} with attempt
\* the number of failed connects since the last successful one (or since the
\* start); after a successful connect the state is Connected and the failure
\* counter 0, so that the next failure reports attempt 1.
C17_AttemptCountsFailures ==
    /\ [](state.tag = "Reconnecting" =>
            (state.attempt = nfail /\ nfail >= 1 /\ consecutive_failures = nfail))
    /\ [](state.tag # "Reconnecting" => state.attempt = 0)
    /\ [][ConnectErr => (state' = Reconnecting(nfail') /\ nfail' = nfail + 1)]_vars
    /\ [][ConnectOk => (state' = Connected /\ consecutive_failures' = 0)]_vars
    /\ [][(ConnectErr /\ nfail = 0) => state' = Reconnecting(1)]_vars
    /\ [](IsConnected => consecutive_failures = 0)

C17_Witness ==
    /\ state = Reconnecting(1)
    /\ sent # <<>>
    /\ sent[Len(sent)].ok = FALSE
    /\ Len(sent) >= 2

\* C18: a read that finds the file longer than the stored offset returns a
\* non-empty chunk of at most buffer_size bytes, equal to the file's bytes
\* from the old offset, and moves the offset by the chunk's length; a read
\* that finds the size equal to the offset returns nothing and leaves the
\* offset where it was.
C18_ReadReturnsNextBytes ==
    /\ [][(TailRead /\ Len(file) > offset) =>
            /\ data' # <<>>
            /\ Len(data') <= BufferSize
            /\ data' = SubSeq(file, offset + 1, offset + Len(data'))
            /\ offset' = offset + Len(data')
            /\ tail_pc' = "send"]_vars
    /\ [][(TailRead /\ Len(file) = offset) =>
            (data' = <<>> /\ offset' = offset /\ tail_pc' = "tick")]_vars

C18_Witness ==
    /\ tail_pc = "send"
    /\ Len(data) = BufferSize
    /\ offset = start_offset + BufferSize
    /\ offset < Len(file)
    /\ enq = <<>>

SetMin(S) == CHOOSE x \in S : \A y \in S : x <= y

\* "abc\ndef\nghi\n"
ExampleFile == <<97, 98, 99, 10, 100, 101, 102, 10, 103, 104, 105, 10>>

\* the scan window of a last-N-bytes construction on the file: positions
\* (0-based) r .. WindowEnd(r) - 1
WindowEnd(r) == Min(r + ScanWindow, Len(file))
NewlinesInWindow(r) == {p \in r..(WindowEnd(r) - 1) : file[p + 1] = NL}
BoundariesInWindow(r) ==
    {p \in r..(WindowEnd(r) - 1) : ~(file[p + 1] >= 128 /\ file[p + 1] <= 191)}

\* C19, as stated: with r = size - N > 0 the offset is one past the first
\* newline of the window, or, the window holding no newline, the first
\* position of the window whose byte is not a continuation byte; with
\* N >= size it is 0.
C19_OffsetAtBoundaryInWindow ==
    (tail_pc # "new" /\ ctor.policy = "with_tail_bytes") =>
        LET r == Len(file) - ctor.tail_bytes
        IN  IF r <= 0 THEN start_offset = 0
            ELSE IF NewlinesInWindow(r) # {}
                 THEN start_offset = SetMin(NewlinesInWindow(r)) + 1
                 ELSE /\ BoundariesInWindow(r) # {}
                      /\ start_offset = SetMin(BoundariesInWindow(r))

\* C19, amended: as stated, and when the window holds neither a newline nor
\* a byte that is not a continuation byte, the offset is the end of the
\* window; on "abc\ndef\nghi\n" with tail_bytes = 5 the offset is 8 and the
\* content from there is "ghi\n".
C19_OffsetAtBoundaryOrWindowEnd ==
    /\ (tail_pc # "new" /\ ctor.policy = "with_tail_bytes") =>
          LET r == Len(file) - ctor.tail_bytes
          IN  IF r <= 0 THEN start_offset = 0
              ELSE IF NewlinesInWindow(r) # {}
                   THEN start_offset = SetMin(NewlinesInWindow(r)) + 1
                   ELSE IF BoundariesInWindow(r) # {}
                        THEN start_offset = SetMin(BoundariesInWindow(r))
                        ELSE start_offset = WindowEnd(r)
    /\ FileTailWithTailBytes(ExampleFile, 5) = 8
    /\ SubSeq(ExampleFile, 8 + 1, Len(ExampleFile)) = <<103, 104, 105, 10>>

C19_Witness ==
    /\ ctor.policy = "with_tail_bytes"
    /\ LET r == Len(file) - ctor.tail_bytes
       IN  /\ r > 0
           /\ r + ScanWindow < Len(file)
           /\ NewlinesInWindow(r) = {}
           /\ file[Len(file)] = NL
           /\ start_offset = r + 1
    /\ Produced = Appended
    /\ tail_pc = "tick"

\* C20: for every frame on a socket, len(payload) + 1 is unchanged by the
\* cast to u32 and is what the length field holds; a LogData payload is one
\* chunk of the tail, of at most buffer_size bytes, a Handshake payload is
\* the serialized HandshakePayload and a Keepalive payload is empty.
C20_LengthFits ==
    \A i \in 1..Len(wire) :
        LET fr == wire[i]
            n == Len(fr.payload) + 1
        IN  /\ AsU32(n) = n
            /\ FromBeBytes(SubSeq(Encode(fr), 1, 4)) = n
            /\ IsLogData(fr) =>
                  /\ Len(fr.payload) \in 1..BufferSize
                  /\ \E k \in 1..Len(enq) : enq[k] = fr.payload
            /\ IsHandshake(fr) => fr.payload = HandshakePayload(ProjectName)
            /\ IsKeepalive(fr) => fr.payload = <<>>

C20_Witness ==
    /\ Len(wire) = 2
    /\ IsLogData(wire[2])
    /\ Len(wire[2].payload) = BufferSize
    /\ SubSeq(Encode(wire[2]), 1, 4) = <<0, 0, 0, BufferSize + 1>>
    /\ offset < Len(file)

\* C21: wherever the run loop stands, a socket is stored exactly when the
\* state is Connected; a failed connect stores none, and the socket and the
\* Connected state are given up in the same step.
C21_SocketIffConnected ==
    /\ [](stream <=> state = Connected)
    /\ [](conn_pc = "loop" => (IsConnected <=> stream))
    /\ [][ConnectErr => (~stream' /\ state' # Connected)]_vars
    /\ [][(stream /\ ~stream') => (state = Connected /\ state' = Disconnected)]_vars
    /\ [][(state = Connected /\ state' # Connected) => (stream /\ ~stream')]_vars

C21_Witness ==
    /\ conn_pc = "loop"
    /\ state = Disconnected
    /\ ~stream
    /\ sent # <<>>
    /\ ~sent[Len(sent)].ok
    /\ nfail = 0
    /\ Len(sent) = 1

\* a chunk has just left the queue
Dequeued == queue # <<>> /\ queue' = Tail(queue)

\* C22: a chunk leaves the queue only in rx.recv() of a loop iteration that
\* found the connection Connected, and it is the oldest one; while the
\* connection is not Connected (connect attempts, backoff sleeps) the queue
\* only grows at its end, so what was enqueued during an outage is still
\* there, in order, when a connection is established again.
C22_DequeueOnlyWhileConnected ==
    /\ [][queue' # queue =>
            \/ Dequeued /\ IsConnected /\ conn_pc = "recv"
            \/ Len(queue') = Len(queue) + 1 /\ IsPrefix(queue, queue')]_vars
    /\ [][~IsConnected => IsPrefix(queue, queue')]_vars
    /\ [][(conn_pc = "connect" \/ conn_pc = "sleep") => IsPrefix(queue, queue')]_vars
    /\ [][Len(sent') > Len(sent) => (IsConnected /\ Dequeued)]_vars

C22_Witness ==
    /\ conn_pc = "sleep"
    /\ state = Reconnecting(2)
    /\ Len(queue) = 2
    /\ queue[1].id < queue[2].id
    /\ sent # <<>>

\* C23: with initial_reconnect_delay <= max_reconnect_delay, the reconnect
\* delay is always between the two, it never decreases except by the reset
\* of a successful connect, and once it is max_reconnect_delay it stays so
\* until a successful connect.
C23_DelayWithinBounds ==
    /\ InitialReconnectDelay <= MaxReconnectDelay
    /\ [](reconnect_delay >= InitialReconnectDelay
          /\ reconnect_delay <= MaxReconnectDelay)
    /\ [][(reconnect_delay = MaxReconnectDelay
            /\ reconnect_delay' # MaxReconnectDelay)
            => (conn_pc = "connect" /\ server = "up" /\ state' = Connected
                /\ reconnect_delay' = InitialReconnectDelay)]_vars
    /\ [][reconnect_delay' < reconnect_delay => state' = Connected]_vars

C23_Witness ==
    /\ reconnect_delay = MaxReconnectDelay
    /\ conn_pc = "loop"
    /\ nfail >= 7
    /\ state.tag = "Reconnecting"

\* C24: the run loop leaves only from rx.recv(), with the producer ended and
\* the queue empty; once it has left, the producer is ended, nothing is in
\* the queue, and every chunk that was enqueued has been received, once and
\* in order.
C24_ExitOnlyWhenClosedAndEmpty ==
    /\ [][(conn_pc # "done" /\ conn_pc' = "done")
            => (conn_pc = "recv" /\ tail_pc = "done" /\ queue = <<>>)]_vars
    /\ [](conn_pc = "done" =>
            /\ tail_pc = "done"
            /\ queue = <<>>
            /\ data = <<>>
            /\ Len(sent) = Len(enq)
            /\ \A i \in 1..Len(enq) : sent[i].id = i /\ sent[i].bytes = enq[i])
    /\ [][conn_pc = "done" => (conn_pc' = "done" /\ queue' = queue /\ enq' = enq)]_vars

C24_Witness ==
    /\ conn_pc = "done"
    /\ Len(enq) >= 2
    /\ Len(sent) = Len(enq)
    /\ \E i \in 1..Len(sent) : ~sent[i].ok
    /\ state = Connected

====
